---- MODULE Spec2Model ----
(***************************************************************************)
(* Model of motown.js.                                                     *)
(*                                                                         *)
(* The keyed data source: the keyedDataAdapter (an array of item objects   *)
(* plus a key -> item object map) and the KeyedDataSource methods layered  *)
(* on it (sort, getAt, containsKey, ...).                                  *)
(*                                                                         *)
(* The application: MT.configApp, the activation handler and the           *)
(* AppController's navigation between pages, with the promises of the      *)
(* view loads and of the page controllers' callbacks completing one step   *)
(* at a time.                                                              *)
(*                                                                         *)
(* Item objects have identity: the array and the map hold references to    *)
(* the same objects, so the model keeps a heap of objects addressed by     *)
(* references.  Array positions are 0-based as in the source; TLA+         *)
(* sequences are 1-based, so position i of the array is element i+1 of the *)
(* sequence.                                                               *)
(***************************************************************************)
EXTENDS Integers, Sequences, FiniteSets, TLC

\* Bounds of the model.
MaxLen == 3
MaxVal == 2
MaxSteps == 3
MaxNavs == 2
MaxActivations == 2

Keys == {"a", "b", "c"}
Vals == 1..MaxVal
Comparators == {"asc", "desc"}

\* The keys in a fixed order.
KeyOrder == <<"a", "b", "c">>

VARIABLES
  items,     \* adapter._items: sequence of object references
  keyMap,    \* adapter._keyMap: function from the keys present to references
  heap,      \* the item objects: reference -> [key, data, index, moved]
  editing,   \* adapter._editing
  call,      \* the last call made on the data source
  ret,       \* what that call returned
  moves,     \* the move primitives that call invoked on the data source
  reloads,   \* what the notification handler saw at each reload() of that call
  steps,     \* what that call did, in its order: "beginEdits", "sort", ...
  begun,     \* history: the caller's beginEdits calls in the batch opened last
  budget,    \* the number of calls the application's code still makes
  domContentLoaded,     \* the DOMContentLoaded event has fired
  contentLoadedPromise, \* "undefined", or the state of the promise
  waiting,              \* the activations whose done callback waits for it
  activations,          \* the number of activated events so far
  App,                  \* MT.App: "undefined" or "initialized"
  activationDetails,    \* MT.App has its own activationDetails property
  history,              \* WinJS.Navigation: current, backStack, forwardStack
  controllerCache,      \* the page controllers created: page, viewReady calls
  _pageMap,             \* AppController._pageMap
  hostEl,               \* the children of the host element: view elements
  navigations           \* the navigations handled by onNavigate

storeVars == <<items, keyMap, heap, editing, call, ret, moves, reloads, steps,
               begun, budget>>

appVars == <<domContentLoaded, contentLoadedPromise, waiting, activations, App,
             activationDetails, history, controllerCache, _pageMap, hostEl,
             navigations>>

vars == <<storeVars, appVars>>

Min(a, b) == IF a < b THEN a ELSE b
Max(a, b) == IF a > b THEN a ELSE b

Range(f) == {f[x] : x \in DOMAIN f}

(***************************************************************************)
(* Array.prototype.splice(start, deleteCount, ...ins) on a 0-based array.  *)
(* A negative start counts from the end, a start beyond the end is the     *)
(* end, and deleteCount is clamped to what is left.                        *)
(***************************************************************************)
splice(s, start, deleteCount, ins) ==
  LET len == Len(s)
      st  == IF start < 0 THEN Max(len + start, 0) ELSE Min(start, len)
      dc  == Min(Max(deleteCount, 0), len - st)
  IN  SubSeq(s, 1, st) \o ins \o SubSeq(s, st + dc + 1, len)

\* An item object as _initItems and insertAtEnd create it: no index, no _moved.
NewItem(key, data) ==
  [key |-> key, data |-> data, index |-> <<>>, moved |-> FALSE]

\* _findIndex: the first position holding the object, -1 when there is none.
_findIndex(its, id) ==
  IF \E i \in 1..Len(its) : its[i] = id
  THEN (CHOOSE i \in 1..Len(its) : its[i] = id /\ \A j \in 1..(i - 1) : its[j] # id) - 1
  ELSE -1

(***************************************************************************)
(* References.  Which reference an object has is not observable, so the    *)
(* model names the objects by what tells them apart: <<k, 0>> is the       *)
(* object the map holds for key k, and <<k, n>> with n > 0 are the other   *)
(* objects with key k that are still in the array.  After every operation  *)
(* the objects referenced from neither the array nor the map are dropped,  *)
(* and an object whose map entry was deleted gets a reference <<k, n>>.    *)
(***************************************************************************)
Ref(k, n) == <<k, n>>

\* A reference <<k, n>>, n > 0, that is not in use.
OtherRef(h, k) ==
  Ref(k, CHOOSE n \in 1..(Cardinality(DOMAIN h) + 1) :
           /\ Ref(k, n) \notin DOMAIN h
           /\ \A m \in 1..(n - 1) : Ref(k, m) \in DOMAIN h)

\* The object at reference old gets the reference new.
Rename(st, old, new) ==
  [st EXCEPT !.items = [i \in 1..Len(@) |-> IF @[i] = old THEN new ELSE @[i]],
             !.heap  = [r \in (DOMAIN @ \ {old}) \cup {new} |->
                          IF r = new THEN @[old] ELSE @[r]]]

Collect(st) ==
  LET live    == Range(st.items) \cup Range(st.keyMap)
      dropped == [st EXCEPT !.heap = [r \in live |-> @[r]]]
      gone    == {r \in Range(st.items) : r[2] = 0 /\ r[1] \notin DOMAIN st.keyMap}
  IN  IF gone # {}
      THEN LET r == CHOOSE x \in gone : TRUE
           IN  Rename(dropped, r, OtherRef(dropped.heap, r[1]))
      ELSE IF DOMAIN st.heap = live THEN st ELSE dropped

\* The store part of the state as one record, threaded through the operations.
\* threw: the operation ended in a TypeError (property read on undefined).
Store == [items |-> items, keyMap |-> keyMap, heap |-> heap,
          moves |-> <<>>, reloads |-> <<>>, threw |-> FALSE,
          steps |-> <<>>, editing |-> editing, begun |-> begun]

(***************************************************************************)
(* The data argument of the constructor and of setData: an array, or a     *)
(* value that is not an array (undefined, an array-like object, ...).      *)
(* elems are its indexed elements.  Array.isArray(data) ? data : []        *)
(***************************************************************************)
arrayOf_Unchecked(data) == data.elems

arrayOf(data) == IF data.isArray THEN data.elems ELSE <<>>

\* this._notificationHandler.reload(): the handler sees the store as it is.
reload(st) ==
  [st EXCEPT !.reloads = Append(@, [items |-> st.items, keyMap |-> st.keyMap,
                                    heap |-> st.heap])]

\* The array and the map that the loop of _initItems builds from an array.
Built(raw) ==
  LET n  == Len(raw)
      ks == {raw[i].key : i \in 1..n}
      ref(i) == Ref(raw[i].key,
                    Cardinality({j \in (i + 1)..n : raw[j].key = raw[i].key}))
  IN  [items  |-> [i \in 1..n |-> ref(i)],
       keyMap |-> [k \in ks |-> Ref(k, 0)],
       heap   |-> [r \in {ref(i) : i \in 1..n} |->
                     LET i == CHOOSE j \in 1..n : ref(j) = r
                     IN  NewItem(raw[i].key, raw[i])],
       moves  |-> <<>>,
       reloads |-> <<>>,
       threw  |-> FALSE,
       steps  |-> <<>>]

\* _initItems that calls reload() when the new array is assigned and the
\* map is still empty.
_initItems_ReloadFirst(data, preventReload) ==
  LET st == Built(arrayOf(data))
  IN  IF preventReload THEN st
      ELSE [st EXCEPT !.reloads = reload([st EXCEPT !.keyMap = <<>>]).reloads]

(***************************************************************************)
(* _initItems(data, preventReload): every raw item data[i] becomes the     *)
(* item object {key: data[i][keyProperty], data: data[i]}; the map is      *)
(* rebuilt, a later item with the same key overwriting an earlier one;     *)
(* then reload() unless preventReload.                                     *)
(***************************************************************************)
_initItems(data, preventReload) ==
  LET st == Built(arrayOf(data))
  IN  IF preventReload THEN st ELSE reload(st)

\* new keyedDataAdapter(items, options): _initItems(items, true)
keyedDataAdapter(data) == _initItems(data, TRUE)

\* setData(data): _initItems(data)
setData(data) == _initItems(data, FALSE)

\* insertAtEnd that takes the key argument as it is, falsy or not.
insertAtEnd_NoDerive(st, key, data) ==
  LET k  == key
      s0 == IF Ref(k, 0) \in DOMAIN st.heap
            THEN Rename(st, Ref(k, 0), OtherRef(st.heap, k))
            ELSE st
  IN  [s0 EXCEPT !.items  = Append(@, Ref(k, 0)),
                 !.keyMap = [x \in DOMAIN @ \cup {k} |->
                                IF x = k THEN Ref(k, 0) ELSE @[x]],
                 !.heap   = [x \in DOMAIN @ \cup {Ref(k, 0)} |->
                                IF x = Ref(k, 0) THEN NewItem(k, data) ELSE @[x]]]

\* insertAtEnd(key, data): push a new item object and enter it in the map.
\* A falsy key ("") is replaced by data[keyProperty].  An object the map
\* held for the key is no longer the map's.
insertAtEnd(st, key, data) ==
  LET k  == IF key # "" THEN key ELSE data.key
      s0 == IF Ref(k, 0) \in DOMAIN st.heap
            THEN Rename(st, Ref(k, 0), OtherRef(st.heap, k))
            ELSE st
  IN  [s0 EXCEPT !.items  = Append(@, Ref(k, 0)),
                 !.keyMap = [x \in DOMAIN @ \cup {k} |->
                                IF x = k THEN Ref(k, 0) ELSE @[x]],
                 !.heap   = [x \in DOMAIN @ \cup {Ref(k, 0)} |->
                                IF x = Ref(k, 0) THEN NewItem(k, data) ELSE @[x]]]

\* moveAfter that removes at currIdx whatever the direction of the move.
moveAfter_NoDelta(st, key, prevKey, currIdx, prevItemIdx) ==
  IF key \notin DOMAIN st.keyMap
  THEN [st EXCEPT !.threw = TRUE]
  ELSE LET id     == st.keyMap[key]
           newIdx == prevItemIdx + 1
       IN  IF st.heap[id].moved
           THEN [st EXCEPT !.heap[id].moved = FALSE]
           ELSE [st EXCEPT !.items =
                   splice(splice(@, newIdx, 0, <<id>>), currIdx, 1, <<>>)]

\* moveAfter(key, prevKey, currIdx, prevItemIdx)
moveAfter(st, key, prevKey, currIdx, prevItemIdx) ==
  IF key \notin DOMAIN st.keyMap
  THEN [st EXCEPT !.threw = TRUE]
  ELSE LET id     == st.keyMap[key]
           newIdx == prevItemIdx + 1
           delta  == IF newIdx > currIdx THEN 0 ELSE 1
       IN  IF st.heap[id].moved
           THEN [st EXCEPT !.heap[id].moved = FALSE]
           ELSE [st EXCEPT !.items =
                   splice(splice(@, newIdx, 0, <<id>>), currIdx + delta, 1, <<>>)]

\* moveToStart that takes item.index as it is: undefined compares false.
moveToStart_NoFind(st, key) ==
  IF key \notin DOMAIN st.keyMap
  THEN [st EXCEPT !.threw = TRUE]
  ELSE LET id  == st.keyMap[key]
           o   == st.heap[id]
       IN  IF o.moved
           THEN [st EXCEPT !.heap[id].moved = FALSE]
           ELSE IF o.index # <<>> /\ o.index[1] > 0
                THEN [st EXCEPT !.items = splice(splice(@, o.index[1], 1, <<>>), 0, 0, <<id>>)]
                ELSE st

\* moveToStart(key)
moveToStart(st, key) ==
  IF key \notin DOMAIN st.keyMap
  THEN [st EXCEPT !.threw = TRUE]
  ELSE LET id  == st.keyMap[key]
           o   == st.heap[id]
           idx == IF o.index = <<>> THEN _findIndex(st.items, id) ELSE o.index[1]
           s1  == [st EXCEPT !.heap[id].index = <<idx>>]
       IN  IF o.moved
           THEN [s1 EXCEPT !.heap[id].moved = FALSE]
           ELSE IF idx > 0
                THEN [s1 EXCEPT !.items = splice(splice(@, idx, 1, <<>>), 0, 0, <<id>>)]
                ELSE s1

\* moveToEnd(key)
moveToEnd(st, key) ==
  IF key \notin DOMAIN st.keyMap
  THEN [st EXCEPT !.threw = TRUE]
  ELSE LET id  == st.keyMap[key]
           o   == st.heap[id]
           idx == IF o.index = <<>> THEN _findIndex(st.items, id) ELSE o.index[1]
           s1  == [st EXCEPT !.heap[id].index = <<idx>>]
       IN  IF o.moved
           THEN [s1 EXCEPT !.heap[id].moved = FALSE]
           ELSE IF idx < Len(st.items) - 1
                THEN [s1 EXCEPT !.items = Append(splice(@, idx, 1, <<>>), id)]
                ELSE s1

\* remove without the test of the index found: an absent key yields -1 and
\* the splice at -1 takes the last record.
remove_NoIndexTest(st, key) ==
  IF key \notin DOMAIN st.keyMap
  THEN [st EXCEPT !.items = splice(@, -1, 1, <<>>)]
  ELSE LET id  == st.keyMap[key]
           o   == st.heap[id]
           idx == IF o.index # <<>> THEN o.index[1] ELSE _findIndex(st.items, id)
       IN  [st EXCEPT !.items  = splice(@, idx, 1, <<>>),
                      !.keyMap = [x \in DOMAIN @ \ {key} |-> @[x]]]

\* remove(key)
remove(st, key) ==
  IF key \notin DOMAIN st.keyMap
  THEN st
  ELSE LET id  == st.keyMap[key]
           o   == st.heap[id]
           idx == IF o.index # <<>> THEN o.index[1] ELSE _findIndex(st.items, id)
       IN  IF idx >= 0
           THEN [st EXCEPT !.items  = splice(@, idx, 1, <<>>),
                           !.keyMap = [x \in DOMAIN @ \ {key} |-> @[x]]]
           ELSE st

(***************************************************************************)
(* itemsFromKey(key, ...): the fetch result, or the doesNotExist error     *)
(* carrying the key.  offset and absoluteIndex are item.index as it is:    *)
(* <<>> when the object has no index property, <<n>> otherwise.            *)
(***************************************************************************)
NoRet ==
  [err |-> "", key |-> "", items |-> <<>>, offset |-> <<>>,
   absoluteIndex |-> <<>>, totalCount |-> 0]

\* itemsFromKey that does not set err.key.
itemsFromKey_NoErrKey(st, key) ==
  IF key \notin DOMAIN st.keyMap
  THEN [NoRet EXCEPT !.err = "doesNotExist"]
  ELSE LET o == st.heap[st.keyMap[key]]
       IN  [NoRet EXCEPT !.items = st.items, !.offset = o.index,
                         !.absoluteIndex = o.index, !.totalCount = Len(st.items)]

itemsFromKey(st, key) ==
  IF key \notin DOMAIN st.keyMap
  THEN [NoRet EXCEPT !.err = "doesNotExist", !.key = key]
  ELSE LET o == st.heap[st.keyMap[key]]
       IN  [NoRet EXCEPT !.items = st.items, !.offset = o.index,
                         !.absoluteIndex = o.index, !.totalCount = Len(st.items)]

\* itemsFromIndex with > for >= in the test of the index.
itemsFromIndex_OffByOne(st, requestIndex, countBefore, countAfter) ==
  LET len == Len(st.items)
  IN  IF requestIndex > len \/ requestIndex < 0
      THEN [NoRet EXCEPT !.err = "doesNotExist"]
      ELSE [NoRet EXCEPT !.items = st.items, !.offset = <<requestIndex>>,
                         !.totalCount = len]

\* itemsFromIndex(requestIndex, countBefore, countAfter): the whole array
\* with the requested index as offset, or the doesNotExist error.  The
\* result has no absoluteIndex.
itemsFromIndex(st, requestIndex, countBefore, countAfter) ==
  LET len == Len(st.items)
  IN  IF requestIndex >= len \/ requestIndex < 0
      THEN [NoRet EXCEPT !.err = "doesNotExist"]
      ELSE [NoRet EXCEPT !.items = st.items, !.offset = <<requestIndex>>,
                         !.totalCount = len]

\* The caller's sort function over payloads: ascending or descending by v.
sortFn(cmp, x, y) == IF cmp = "asc" THEN x.v - y.v ELSE y.v - x.v

\* Array.prototype.sort: some rearrangement of the array that is ordered by
\* the comparator.  The order of elements that compare equal is the host's.
Rearrangements(s) ==
  LET n == Len(s)
  IN  {[i \in 1..n |-> s[f[i]]] :
         f \in {g \in [1..n -> 1..n] : \A i, j \in 1..n : g[i] = g[j] => i = j}}

Ordered(s, h, cmp) ==
  \A i \in 1..(Len(s) - 1) : sortFn(cmp, h[s[i]].data, h[s[i + 1]].data) <= 0

arraySort(st, cmp) == {p \in Rearrangements(st.items) : Ordered(p, st.heap, cmp)}

\* Keys of objects in the array that are not the map's entry for their key:
\* a move of such a key reaches another object, which carries no marker.
AliasedKeys(st) ==
  {st.heap[id].key : id \in {x \in Range(st.items) :
      st.heap[x].key \in DOMAIN st.keyMap /\ st.keyMap[st.heap[x].key] # x}}

Positions(st) == 0..(Len(st.items) - 1)

\* The index arguments the list data source passes to the adapter's
\* moveAfter when sort calls this.moveAfter(key, prevKey): they come from
\* the host, so any pair of positions.
Hints(st) == [AliasedKeys(st) -> Positions(st) \X Positions(st)]

\* The loop of sort over the sorted array, from position i on.
RECURSIVE replay(_, _, _, _)
replay(st, i, len, hints) ==
  IF i >= len \/ st.threw
  THEN st
  ELSE LET id == st.items[i + 1]
           o  == st.heap[id]
       IN  IF o.index = <<i>>
           THEN replay(st, i + 1, len, hints)
           ELSE LET marked == [st EXCEPT !.heap[id].moved = TRUE]
                    toStart == i = 0 \/ st.heap[st.items[i]].key = ""
                    prevKey == IF toStart THEN "" ELSE st.heap[st.items[i]].key
                    h == IF o.key \in DOMAIN hints THEN hints[o.key] ELSE <<0, 0>>
                    op == IF toStart THEN "moveToStart" ELSE "moveAfter"
                    logged == [marked EXCEPT
                                 !.moves = Append(@, [op |-> op, key |-> o.key,
                                                      prevKey |-> prevKey]),
                                 !.steps = Append(@, op)]
                IN  IF toStart
                    THEN replay(moveToStart(logged, o.key), i + 1, len, hints)
                    ELSE replay(moveAfter(logged, o.key, prevKey, h[1], h[2]),
                                i + 1, len, hints)

\* beginEdits()
beginEdits(st) ==
  [st EXCEPT !.editing = TRUE, !.steps = Append(@, "beginEdits")]

\* endEdits that leaves a batch open that was begun more than once.
endEdits_Nested(st) ==
  [st EXCEPT !.editing = st.begun > 1, !.steps = Append(@, "endEdits")]

\* endEdits()
endEdits(st) ==
  [st EXCEPT !.editing = FALSE, !.steps = Append(@, "endEdits")]

\* sort that begins and ends a batch whether or not one is open.
sort_Unguarded(st, sorted, hints) ==
  LET s1 == [st EXCEPT !.items = sorted, !.steps = Append(@, "sort")]
      s3 == replay(beginEdits(s1), 0, Len(st.items), hints)
  IN  IF s3.threw THEN s3 ELSE endEdits(s3)

\* sort(sortFn), for one outcome of the array sort and of the host's hints:
\* the array is sorted; beginEdits unless a batch is open; the replay of the
\* moves; endEdits unless the batch was open.  A TypeError in a move ends
\* the call there.
sort(st, sorted, hints) ==
  LET s1 == [st EXCEPT !.items = sorted, !.steps = Append(@, "sort")]
      s2 == IF ~st.editing THEN beginEdits(s1) ELSE s1
      s3 == replay(s2, 0, Len(st.items), hints)
  IN  IF s3.threw \/ st.editing THEN s3 ELSE endEdits(s3)

\* getAt(idx), containsKey(key), get(key), getKeys(), length
getAt(st, idx) ==
  IF idx \in Positions(st) THEN <<st.heap[st.items[idx + 1]].data>> ELSE <<>>
containsKey(st, key) == key \in DOMAIN st.keyMap
get(st, key) == IF key \in DOMAIN st.keyMap THEN <<st.heap[st.keyMap[key]].data>> ELSE <<>>
getKeys(st) == DOMAIN st.keyMap
length(st) == Len(st.items)

----------------------------------------------------------------------------
(***************************************************************************)
(* The application.  The state of the application as one record, threaded  *)
(* through the handlers.  A view element is named by the index of its      *)
(* controller in controllerCache (its data-motown-owner-index).            *)
(***************************************************************************)
Pages == {"home", "p"}
homePage == "home"
Kinds == {"launch", "other"}

AppState ==
  [domContentLoaded |-> domContentLoaded,
   contentLoadedPromise |-> contentLoadedPromise,
   waiting |-> waiting, activations |-> activations,
   App |-> App, activationDetails |-> activationDetails,
   history |-> history, controllerCache |-> controllerCache,
   pageMap |-> _pageMap, hostEl |-> hostEl, navigations |-> navigations]

\* element.appendChild(el): an element that is a child already is moved.
appendChild(children, el) ==
  SelectSeq(children, LAMBDA x : x # el) \o <<el>>

\* WinJS.Promise.as(controller.method(context)): the method is called, the
\* navigation waits for the promise.  inDocument: the controller's view
\* element is a child of the host element when the method is called.
invoke(a, n, idx, method) ==
  [a EXCEPT !.navigations[n].pc = method,
            !.navigations[n].calls =
               Append(@, [controller |-> idx, method |-> method,
                          inDocument |-> idx \in Range(a.hostEl)])]

\* onNavigate, the function given to done: the controller of the page is
\* there.  With a previous controller its beforeNavigateOut is called, else
\* the view is appended and beforeNavigateIn is called.
pageLoaded(a, n, idx) ==
  LET nav == a.navigations[n]
      a1  == [a EXCEPT !.navigations[n].controller = <<idx>>]
  IN  IF nav.previous # <<>>
      THEN invoke(a1, n, nav.previous[1], "beforeNavigateOut")
      ELSE invoke([a1 EXCEPT !.hostEl = appendChild(@, idx)], n, idx, "beforeNavigateIn")

\* _loadPage(name): a cached controller is passed on at once, else the view
\* is loaded: the navigation waits for MT.loadView.
_loadPage(a, n) ==
  LET name == a.navigations[n].location
  IN  IF name \in DOMAIN a.pageMap
      THEN pageLoaded(a, n, a.pageMap[name])
      ELSE [a EXCEPT !.navigations[n].pc = "loadView"]

\* _loadPage, the function given to then: MT.loadView has completed.  The
\* controller is created and cached; WinJS.UI.processAll is started.
viewLoaded(a, n) ==
  LET name == a.navigations[n].location
      idx  == Len(a.controllerCache)
  IN  [a EXCEPT !.controllerCache = Append(@, [page |-> name, viewReady |-> 0]),
                !.pageMap = [x \in DOMAIN @ \cup {name} |->
                               IF x = name THEN idx ELSE @[x]],
                !.navigations[n].controller = <<idx>>,
                !.navigations[n].pc = "processAll"]

\* _loadPage, the second function given to then: processAll has completed.
\* controller._initView() calls viewReady; the controller is passed on.
processedAll(a, n) ==
  LET idx == a.navigations[n].controller[1]
  IN  pageLoaded([a EXCEPT !.controllerCache[idx + 1].viewReady = @ + 1], n, idx)

\* onNavigate, after beforeNavigateOut: the first child of the host element
\* is removed (removeChild(null) throws: the chain ends in an error), then
\* afterNavigateOut is called.
afterBeforeNavigateOut(a, n) ==
  IF a.hostEl = <<>>
  THEN [a EXCEPT !.navigations[n].pc = "error"]
  ELSE invoke([a EXCEPT !.hostEl = Tail(@)], n,
              a.navigations[n].previous[1], "afterNavigateOut")

\* onNavigate, after afterNavigateOut: the view is appended, beforeNavigateIn
\* is called.
afterAfterNavigateOut(a, n) ==
  LET idx == a.navigations[n].controller[1]
  IN  invoke([a EXCEPT !.hostEl = appendChild(@, idx)], n, idx, "beforeNavigateIn")

\* onNavigate, after beforeNavigateIn and _processBindings: afterNavigateIn
\* is called; its result is not waited for.
afterBeforeNavigateIn(a, n) ==
  [invoke(a, n, a.navigations[n].controller[1], "afterNavigateIn")
     EXCEPT !.navigations[n].pc = "done"]

\* onNavigate(location, state, e), e.detail.delta = delta: the controller of
\* the page that is left, as found through the history and the page map.
\* active: the view of that controller is on the screen and no navigation
\* is under way when this one starts.
onNavigate(a, location, delta) ==
  LET backStack    == a.history.backStack
      forwardStack == a.history.forwardStack
      left == IF delta < 0
              THEN <<forwardStack[Max(0, Len(forwardStack) + delta) + 1]>>
              ELSE IF delta > 0
                   THEN <<backStack[Max(0, Len(backStack) - delta) + 1]>>
                   ELSE IF Len(backStack) > 0
                        THEN <<backStack[Len(backStack)]>>
                        ELSE <<>>
      previous == IF left # <<>> /\ left[1] \in DOMAIN a.pageMap
                  THEN <<a.pageMap[left[1]]>>
                  ELSE <<>>
      nav == [location |-> location, previous |-> previous, controller |-> <<>>,
              pc |-> "start", calls |-> <<>>,
              active |-> /\ previous # <<>>
                         /\ previous[1] \in Range(a.hostEl)
                         /\ \A m \in DOMAIN a.navigations :
                              a.navigations[m].pc \in {"done", "error"}]
  IN  _loadPage([a EXCEPT !.navigations = Append(@, nav)], Len(a.navigations) + 1)

\* The navigating event: the AppController's listener, once it is registered.
navigating(a, delta) ==
  IF a.App = "undefined" THEN a ELSE onNavigate(a, a.history.current, delta)

\* WinJS.Navigation.navigate(location).  onBeforeNavigate cancels the
\* navigation to a page that has no definition.
navigate(a, location) ==
  LET h == a.history
  IN  IF a.App # "undefined" /\ location \notin Pages
      THEN a
      ELSE navigating([a EXCEPT !.history =
                         [current |-> location,
                          backStack |-> IF h.current = "" THEN h.backStack
                                        ELSE Append(h.backStack, h.current),
                          forwardStack |-> <<>>]], 0)

\* WinJS.Navigation.back()
back(a) ==
  LET h == a.history
      n == Len(h.backStack)
  IN  IF n = 0 THEN a
      ELSE navigating([a EXCEPT !.history =
                         [current |-> h.backStack[n],
                          backStack |-> SubSeq(h.backStack, 1, n - 1),
                          forwardStack |-> Append(h.forwardStack, h.current)]], -1)

\* WinJS.Navigation.forward()
forward(a) ==
  LET h == a.history
      n == Len(h.forwardStack)
  IN  IF n = 0 THEN a
      ELSE navigating([a EXCEPT !.history =
                         [current |-> h.forwardStack[n],
                          backStack |-> Append(h.backStack, h.current),
                          forwardStack |-> SubSeq(h.forwardStack, 1, n - 1)]], 1)

\* AppController.onActivation(kind, ...)
onActivation(a, kind) ==
  IF kind = "launch" THEN navigate(a, homePage) ELSE a

\* onactivated, the function given to done.  Object.defineProperty throws
\* when MT.App has the activationDetails property already.
activated(a, kind) ==
  IF a.activationDetails
  THEN a
  ELSE onActivation([a EXCEPT !.activationDetails = TRUE], kind)

\* An activation handler that navigates to the home page without waiting
\* for contentLoadedPromise.
onactivated_NoWait(a, kind) ==
  IF kind = "launch" THEN navigate(a, homePage) ELSE a

\* WinJS.Application.onactivated: contentLoadedPromise.done(...).  Without
\* a promise the handler throws; with a completed promise the function runs
\* at once; else it waits.
onactivated(a, kind) ==
  IF a.contentLoadedPromise = "undefined" THEN a
  ELSE IF a.contentLoadedPromise = "complete" THEN activated(a, kind)
  ELSE [a EXCEPT !.waiting = Append(@, kind)]

\* The functions waiting for contentLoadedPromise run, in their order.
RECURSIVE runWaiting(_)
runWaiting(a) ==
  IF a.waiting = <<>> THEN a
  ELSE runWaiting(activated([a EXCEPT !.waiting = Tail(@)], Head(a.waiting)))

\* MT.configApp, the function given to WinJS.Utilities.ready: the host
\* element and MT.App are created, MT.App.init() is called; the promise
\* completes when the function has returned.
contentLoaded(a) ==
  runWaiting([a EXCEPT !.App = "initialized", !.contentLoadedPromise = "complete"])

\* MT.configApp(config): the function runs when the DOM content is loaded,
\* at once if it is.
configApp(a) ==
  IF a.domContentLoaded
  THEN contentLoaded(a)
  ELSE [a EXCEPT !.contentLoadedPromise = "pending"]

\* The application before anything has happened.
AppInit ==
  /\ domContentLoaded = FALSE
  /\ contentLoadedPromise = "undefined"
  /\ waiting = <<>>
  /\ activations = 0
  /\ App = "undefined"
  /\ activationDetails = FALSE
  /\ history = [current |-> "", backStack |-> <<>>, forwardStack |-> <<>>]
  /\ controllerCache = <<>>
  /\ _pageMap = <<>>
  /\ hostEl = <<>>
  /\ navigations = <<>>

----------------------------------------------------------------------------
(***************************************************************************)
(* The raw arrays a store is constructed from: pairwise distinct keys and  *)
(* any payload values.  Keys are opaque to the store, so an array is taken *)
(* up to renaming of its keys: its keys are the first keys of KeyOrder, in *)
(* that order.                                                             *)
(***************************************************************************)
RawArrays ==
  UNION {{r \in [1..n -> [key : Keys, v : Vals]] : \A i \in 1..n : r[i].key = KeyOrder[i]} :
           n \in 0..Min(MaxLen, Len(KeyOrder))}

\* Values that are not arrays, by their indexed elements: a value without
\* elements (undefined, null, a number) and an array-like object.
NonArrays == {<<>>, <<[key |-> KeyOrder[1], v |-> 1]>>}

\* The data a store is constructed from or that setData is called with.
RawInputs ==
  {[isArray |-> TRUE, elems |-> r] : r \in RawArrays}
    \cup {[isArray |-> FALSE, elems |-> r] : r \in NonArrays}

\* A call on the data source: the method, its key (or comparator) argument,
\* and whether the map had an entry for that key when the call was made;
\* index and data are <<>>, or hold the index or the data argument.
Call(op, key) ==
  [op |-> op, key |-> key, had |-> key \in DOMAIN keyMap,
   index |-> <<>>, data |-> <<>>]

\* new KeyedDataSource(data): the adapter's constructor runs _initItems.
\* n calls are made afterwards.
InitFrom(data, n) ==
    LET st == keyedDataAdapter(data)
    IN  /\ items = st.items
        /\ keyMap = st.keyMap
        /\ heap = st.heap
        /\ editing = FALSE
        /\ call = [op |-> "new", key |-> "", had |-> FALSE,
                    index |-> <<>>, data |-> <<data>>]
        /\ ret = NoRet
        /\ moves = <<>>
        /\ reloads = st.reloads
        /\ steps = <<>>
        /\ begun = 0
        /\ budget = n
        /\ AppInit

InitWith(n) == \E data \in RawInputs : InitFrom(data, n)

Init == InitWith(MaxSteps)

\* The store after an operation: garbage dropped, TypeError reported.
CommitCall(st0, c) ==
  LET st == Collect(st0)
  IN  /\ budget > 0
      /\ budget' = budget - 1
      /\ items' = st.items
      /\ keyMap' = st.keyMap
      /\ heap' = st.heap
      /\ moves' = st.moves
      /\ reloads' = st.reloads
      /\ steps' = st.steps
      /\ call' = c
      /\ UNCHANGED appVars
      /\ ret' = IF st.threw THEN [NoRet EXCEPT !.err = "TypeError"] ELSE NoRet

Commit(st0, op, key) == CommitCall(st0, Call(op, key))

\* insertAtEnd of a key the map has no entry for.  It is called with a
\* payload that has the key property, and with that key or with a falsy key.
InsertAtEnd(key, v) ==
  /\ key \notin DOMAIN keyMap
  /\ Len(items) < MaxLen
  /\ \/ Commit(insertAtEnd(Store, key, [key |-> key, v |-> v]), "insertAtEnd", key)
     \/ Commit(insertAtEnd(Store, "", [key |-> key, v |-> v]), "insertAtEnd", key)
  /\ UNCHANGED <<editing, begun>>

Remove(key) ==
  /\ Commit(remove(Store, key), "remove", key)
  /\ UNCHANGED <<editing, begun>>

MoveToStart(key) ==
  /\ Commit(moveToStart(Store, key), "moveToStart", key)
  /\ UNCHANGED <<editing, begun>>

MoveToEnd(key) ==
  /\ Commit(moveToEnd(Store, key), "moveToEnd", key)
  /\ UNCHANGED <<editing, begun>>

\* moveAfter as the list data source calls it: for two different keys of the
\* store, with the positions at which their records sit.
MoveAfter(key, prevKey) ==
  /\ key # prevKey
  /\ key \in DOMAIN keyMap /\ prevKey \in DOMAIN keyMap
  /\ _findIndex(items, keyMap[key]) >= 0
  /\ _findIndex(items, keyMap[prevKey]) >= 0
  /\ Commit(moveAfter(Store, key, prevKey, _findIndex(items, keyMap[key]),
                      _findIndex(items, keyMap[prevKey])), "moveAfter", key)
  /\ UNCHANGED <<editing, begun>>

FetchByKey(key) ==
  /\ budget > 0
  /\ budget' = budget - 1
  /\ call' = Call("itemsFromKey", key)
  /\ ret' = itemsFromKey(Store, key)
  /\ moves' = <<>>
  /\ reloads' = <<>>
  /\ steps' = <<>>
  /\ UNCHANGED <<items, keyMap, heap, editing, begun>>
  /\ UNCHANGED appVars

\* itemsFromIndex(requestIndex, countBefore, countAfter)
Indexes == -1..MaxLen
Counts == 0..1

FetchRange(requestIndex, countBefore, countAfter) ==
  /\ budget > 0
  /\ budget' = budget - 1
  /\ call' = [op |-> "itemsFromIndex", key |-> "", had |-> FALSE,
              index |-> <<requestIndex>>, data |-> <<>>]
  /\ ret' = itemsFromIndex(Store, requestIndex, countBefore, countAfter)
  /\ moves' = <<>>
  /\ reloads' = <<>>
  /\ steps' = <<>>
  /\ UNCHANGED <<items, keyMap, heap, editing, begun>>
  /\ UNCHANGED appVars

\* insertAtEnd of a key the map has an entry for.
InsertExisting(key, v) ==
  /\ key \in DOMAIN keyMap
  /\ Len(items) < MaxLen
  /\ Commit(insertAtEnd(Store, key, [key |-> key, v |-> v]), "insertAtEnd", key)
  /\ UNCHANGED <<editing, begun>>

\* setData(data)
SetData(data) ==
  /\ CommitCall(setData(data), [op |-> "setData", key |-> "", had |-> FALSE,
                                index |-> <<>>, data |-> <<data>>])
  /\ UNCHANGED <<editing, begun>>

\* sort(sortFn)
Sort(cmp) ==
  \E sorted \in arraySort(Store, cmp) :
    \E hints \in Hints(Store) :
      LET st == sort(Store, sorted, hints)
      IN  /\ Commit(st, "sort", cmp)
          /\ editing' = st.editing
          /\ UNCHANGED begun

\* beginEdits() and endEdits(), called by the application's code.
BeginEdits ==
  LET st == beginEdits(Store)
  IN  /\ Commit(st, "beginEdits", "")
      /\ editing' = st.editing
      /\ begun' = IF editing THEN begun + 1 ELSE 1

EndEdits ==
  LET st == endEdits(Store)
  IN  /\ Commit(st, "endEdits", "")
      /\ editing' = st.editing
      /\ UNCHANGED begun

\* The operations that insert, remove and move single records.
NextEdit ==
  \/ \E key \in Keys, v \in Vals : InsertAtEnd(key, v)
  \/ \E key \in Keys : Remove(key)
  \/ \E key \in Keys : MoveToStart(key)
  \/ \E key \in Keys : MoveToEnd(key)
  \/ \E key, prevKey \in Keys : MoveAfter(key, prevKey)

Next ==
  \/ NextEdit
  \/ \E key \in Keys : FetchByKey(key)
  \/ \E cmp \in Comparators : Sort(cmp)

Spec == Init /\ [][Next]_vars

\* The store under insert, remove and move operations only.
SpecEdit == Init /\ [][NextEdit]_vars

\* The store under those operations and fetches by index.
NextFetch ==
  \/ NextEdit
  \/ \E requestIndex \in Indexes, countBefore, countAfter \in Counts :
       FetchRange(requestIndex, countBefore, countAfter)

SpecFetch == Init /\ [][NextFetch]_vars

\* The store under those operations and inserts of keys that are present.
NextDup ==
  \/ NextEdit
  \/ \E key \in Keys, v \in Vals : InsertExisting(key, v)

SpecDup == Init /\ [][NextDup]_vars

\* The store under inserts, removes and replacements of its data.
NextData ==
  \/ \E key \in Keys, v \in Vals : InsertAtEnd(key, v)
  \/ \E key \in Keys : Remove(key)
  \/ \E data \in RawInputs : SetData(data)

SpecData == Init /\ [][NextData]_vars

\* The store under sorts, removes, moves to the start and the caller's batches.
NextBatch ==
  \/ BeginEdits
  \/ EndEdits
  \/ \E key \in Keys : Remove(key)
  \/ \E key \in Keys : MoveToStart(key)
  \/ \E cmp \in Comparators : Sort(cmp)

SpecBatch == Init /\ [][NextBatch]_vars

\* Raw arrays in which one item has the falsy key "" (the key 0 is the same
\* to the tests that sort and insertAtEnd make).
FalsyArrays ==
  {[i \in DOMAIN r |-> IF i = p THEN [key |-> "", v |-> r[i].v] ELSE r[i]] :
     <<r, p>> \in {x \in RawArrays \X (1..MaxLen) : x[2] <= Len(x[1])}}

InitFalsy ==
  \E r \in FalsyArrays : InitFrom([isArray |-> TRUE, elems |-> r], MaxSteps)

\* The store with a falsy key under sorts and moves to its ends.
NextFalsy ==
  \/ \E key \in Keys \cup {""} : MoveToStart(key)
  \/ \E key \in Keys \cup {""} : MoveToEnd(key)
  \/ \E cmp \in Comparators : Sort(cmp)

SpecFalsy == InitFalsy /\ [][NextFalsy]_vars

\* One call more: long enough for a remove, an insert of the removed key and
\* a sort after a move.
InitLong == InitWith(MaxSteps + 1)
SpecLong == InitLong /\ [][Next]_vars

----------------------------------------------------------------------------
(***************************************************************************)
(* The application's steps.  Every step is one turn of the event loop: an  *)
(* event handler or a promise callback, run to its end.                    *)
(***************************************************************************)
\* The state after a step.
Becomes(a) ==
  /\ domContentLoaded' = a.domContentLoaded
  /\ contentLoadedPromise' = a.contentLoadedPromise
  /\ waiting' = a.waiting
  /\ activations' = a.activations
  /\ App' = a.App
  /\ activationDetails' = a.activationDetails
  /\ history' = a.history
  /\ controllerCache' = a.controllerCache
  /\ _pageMap' = a.pageMap
  /\ hostEl' = a.hostEl
  /\ navigations' = a.navigations
  /\ UNCHANGED <<items, keyMap, heap, editing, call, ret, moves, reloads,
                 steps, begun>>

\* A step in which the application's code makes none of its calls.
Event(a) == Becomes(a) /\ UNCHANGED budget

\* The locations navigated to: the pages and a location that is no page.
Locations == Pages \cup {"x"}

\* The navigations that wait at pc.
Waiting(pc) == {n \in 1..Len(navigations) : navigations[n].pc = pc}

\* The application's script calls MT.configApp.
ConfigApp ==
  /\ contentLoadedPromise = "undefined"
  /\ Event(configApp(AppState))

\* The DOMContentLoaded event.
DOMContentLoaded ==
  /\ ~domContentLoaded
  /\ Event(IF contentLoadedPromise = "pending"
             THEN contentLoaded([AppState EXCEPT !.domContentLoaded = TRUE])
             ELSE [AppState EXCEPT !.domContentLoaded = TRUE])

\* An activated event of the application.
Activated(kind) ==
  /\ activations < MaxActivations
  /\ Event(onactivated([AppState EXCEPT !.activations = @ + 1], kind))

\* The page on the screen navigates: WinJS.Navigation.navigate, back, forward.
UserCall(a) ==
  /\ hostEl # <<>>
  /\ budget > 0
  /\ budget' = budget - 1
  /\ Becomes(a)

Navigate(location) == UserCall(navigate(AppState, location))

Back ==
  /\ history.backStack # <<>>
  /\ UserCall(back(AppState))

Forward ==
  /\ history.forwardStack # <<>>
  /\ UserCall(forward(AppState))

\* The promises complete.
ViewLoaded(n) ==
  /\ n \in Waiting("loadView")
  /\ Event(viewLoaded(AppState, n))

ProcessedAll(n) ==
  /\ n \in Waiting("processAll")
  /\ Event(processedAll(AppState, n))

BeforeNavigateOutCompleted(n) ==
  /\ n \in Waiting("beforeNavigateOut")
  /\ Event(afterBeforeNavigateOut(AppState, n))

AfterNavigateOutCompleted(n) ==
  /\ n \in Waiting("afterNavigateOut")
  /\ Event(afterAfterNavigateOut(AppState, n))

BeforeNavigateInCompleted(n) ==
  /\ n \in Waiting("beforeNavigateIn")
  /\ Event(afterBeforeNavigateIn(AppState, n))

NextApp ==
  \/ ConfigApp
  \/ DOMContentLoaded
  \/ \E kind \in Kinds : Activated(kind)
  \/ \E location \in Locations : Navigate(location)
  \/ Back
  \/ \E n \in DOMAIN navigations : ViewLoaded(n)
  \/ \E n \in DOMAIN navigations : ProcessedAll(n)
  \/ \E n \in DOMAIN navigations : BeforeNavigateOutCompleted(n)
  \/ \E n \in DOMAIN navigations : AfterNavigateOutCompleted(n)
  \/ \E n \in DOMAIN navigations : BeforeNavigateInCompleted(n)

\* The application, with an empty data source that is not used; the page
\* on the screen navigates MaxNavs times.
NoData == [isArray |-> TRUE, elems |-> <<>>]

InitApp == InitFrom(NoData, MaxNavs)

SpecApp == InitApp /\ [][NextApp]_vars

\* One navigation more, and forward as well.
InitAppLong == InitFrom(NoData, MaxNavs + 1)

NextAppLong ==
  \/ NextApp
  \/ Forward

SpecAppLong == InitAppLong /\ [][NextAppLong]_vars

----------------------------------------------------------------------------
\* What the claims speak of.

\* The keys of the records in the array, in array order.
KeySeq(its, h) == [i \in 1..Len(its) |-> h[its[i]].key]

\* The records in the array without their bookkeeping (index, _moved).
RecordSeq(its, h) == [i \in 1..Len(its) |-> [key |-> h[its[i]].key, data |-> h[its[i]].data]]

Without(s, k) == SelectSeq(s, LAMBDA x : x # k)

Count(s, x) == Cardinality({i \in 1..Len(s) : s[i] = x})

IsPermutation(s, t) ==
  /\ Len(s) = Len(t)
  /\ \A x \in Range(s) \cup Range(t) : Count(s, x) = Count(t, x)

\* The map and the array are in bijection.
Bijection ==
  /\ \A k \in DOMAIN keyMap : Count(items, keyMap[k]) = 1
  /\ \A i \in 1..Len(items) :
       /\ heap[items[i]].key \in DOMAIN keyMap
       /\ keyMap[heap[items[i]].key] = items[i]

\* C1: after every operation of a sequence of insertAtEnd (fresh key),
\* remove, moveToStart, moveToEnd and moveAfter calls on a store built from
\* distinct keys, the key map and the array are in bijection.
C1_Bijection == Bijection

\* C2: for a present key k, moveToStart(k) immediately followed by
\* itemsFromKey(k) returns absolute index 0.
C2_MoveToStartThenFetch ==
  [][\A k \in Keys :
       (call.op = "moveToStart" /\ call.key = k /\ call.had /\ FetchByKey(k))
         => ret'.absoluteIndex = <<0>>]_vars

\* C3: for a present key k, moveToEnd(k) immediately followed by
\* itemsFromKey(k) returns absolute index count() - 1.
C3_MoveToEndThenFetch ==
  [][\A k \in Keys :
       (call.op = "moveToEnd" /\ call.key = k /\ call.had /\ FetchByKey(k))
         => ret'.absoluteIndex = <<Len(items) - 1>>]_vars

\* C4: for a present key k, itemsFromKey(k) returns the position at which
\* the record of k sits in the array as offset and as absolute index, with
\* the whole array and its length.
C4_FetchReturnsPosition ==
  [][\A k \in Keys :
       (k \in DOMAIN keyMap /\ FetchByKey(k))
         => /\ ret'.offset = <<_findIndex(items, keyMap[k])>>
            /\ ret'.absoluteIndex = <<_findIndex(items, keyMap[k])>>
            /\ ret'.items = items
            /\ ret'.totalCount = Len(items)]_vars

\* C5: for a present key k, remove(k) removes exactly the record of k:
\* afterwards containsKey(k) is false, count() is one less, and the other
\* records are in the array in their previous order.
C5_RemoveExactlyK ==
  [][\A k \in Keys :
       (k \in DOMAIN keyMap /\ call'.op = "remove" /\ call'.key = k)
         => /\ k \notin DOMAIN keyMap'
            /\ Len(items') = Len(items) - 1
            /\ KeySeq(items', heap') = Without(KeySeq(items, heap), k)]_vars

\* C6: for a present key k, after moveToStart(k) the record of k is at
\* position 0 and after moveToEnd(k) at position count() - 1, the other
\* records keeping their relative order.
C6_MoveToEnds ==
  [][\A k \in Keys :
       /\ (k \in DOMAIN keyMap /\ call'.op = "moveToStart" /\ call'.key = k)
            => KeySeq(items', heap') = <<k>> \o Without(KeySeq(items, heap), k)
       /\ (k \in DOMAIN keyMap /\ call'.op = "moveToEnd" /\ call'.key = k)
            => KeySeq(items', heap') = Without(KeySeq(items, heap), k) \o <<k>>]_vars

\* C7: after sort(cmp) the array is a permutation of the array before the
\* sort and is ordered by cmp.
C7_SortOrders ==
  [][\A cmp \in Comparators :
       (call'.op = "sort" /\ call'.key = cmp /\ ret'.err = "")
         => /\ IsPermutation(RecordSeq(items', heap'), RecordSeq(items, heap))
            /\ Ordered(items', heap', cmp)]_vars

\* C8: a second sort(cmp) right after a sort(cmp) leaves the array as it is
\* and invokes neither moveToStart nor moveAfter.
C8_SortTwice ==
  [][(call.op = "sort" /\ ret.err = "" /\ call'.op = "sort" /\ call'.key = call.key)
       => (items' = items /\ moves' = <<>>)]_vars

\* C9: remove(k) for a key that is not present is not an error and changes
\* neither count(), nor the order of the array, nor the key map.
C9_RemoveAbsentNoOp ==
  [][\A k \in Keys :
       (k \notin DOMAIN keyMap /\ call'.op = "remove" /\ call'.key = k)
         => /\ ret'.err = ""
            /\ UNCHANGED <<items, keyMap, heap>>]_vars

\* A remove of an absent key was made on a store that holds records.
C9_Witness == call.op = "remove" /\ ~call.had /\ items # <<>> /\ ret.err = ""

\* C10: itemsFromKey(k) for a key that is not present fails with
\* doesNotExist carrying the key k, and changes neither the array nor the map.
C10_FetchAbsentFails ==
  [][\A k \in Keys :
       (k \notin DOMAIN keyMap /\ call'.op = "itemsFromKey" /\ call'.key = k)
         => /\ ret'.err = "doesNotExist"
            /\ ret'.key = k
            /\ UNCHANGED <<items, keyMap, heap>>]_vars

\* A fetch of an absent key failed on a store that holds records.
C10_Witness ==
  /\ call.op = "itemsFromKey" /\ ~call.had
  /\ ret.err = "doesNotExist" /\ ret.key = call.key
  /\ items # <<>>

\* C11: itemsFromIndex(i, countBefore, countAfter) fails with doesNotExist
\* exactly when i < 0 or i >= count(); otherwise it returns the whole array,
\* offset i and total count count(), whatever countBefore and countAfter
\* are; it never changes the array or the map.
C11_FetchRange ==
  [][\A i \in Indexes :
       (call'.op = "itemsFromIndex" /\ call'.index = <<i>>)
         => /\ ret'.err \in {"", "doesNotExist"}
            /\ (ret'.err = "doesNotExist") <=> (i < 0 \/ i >= Len(items))
            /\ (ret'.err = "") =>
                  /\ ret'.items = items
                  /\ ret'.offset = <<i>>
                  /\ ret'.totalCount = Len(items)
            /\ UNCHANGED <<items, keyMap, heap>>]_vars

\* A fetch at the last index of a store with several records succeeded.
C11_Witness ==
  /\ call.op = "itemsFromIndex" /\ call.index = <<Len(items) - 1>>
  /\ Len(items) >= 2
  /\ ret.err = "" /\ ret.offset = call.index /\ ret.items = items

\* C12: insertAtEnd(k, payload) for a key k that is not present appends one
\* record: count() grows by one, the new record is last and is the map's
\* entry for its key, the records that were there keep their positions, and
\* with a falsy key argument the record's key is payload[keyProperty].
C12_InsertAppends ==
  [][\A k \in Keys :
       (k \notin DOMAIN keyMap /\ call'.op = "insertAtEnd" /\ call'.key = k)
         => /\ Len(items') = Len(items) + 1
            /\ SubSeq(items', 1, Len(items)) = items
            /\ \A i \in 1..Len(items) : heap'[items[i]] = heap[items[i]]
            /\ heap'[items'[Len(items')]].key = k
            /\ heap'[items'[Len(items')]].data.key = k
            /\ DOMAIN keyMap' = DOMAIN keyMap \cup {k}
            /\ keyMap'[k] = items'[Len(items')]
            /\ \A x \in DOMAIN keyMap : keyMap'[x] = keyMap[x]]_vars

\* A record was appended to a store that held records.
C12_Witness ==
  /\ call.op = "insertAtEnd" /\ ~call.had
  /\ Len(items) >= 2
  /\ keyMap[call.key] = items[Len(items)]

\* C13: insertAtEnd with a key that is present fails with DuplicateKeyError.
C13_DuplicateInsertFails ==
  [][\A k \in Keys :
       (k \in DOMAIN keyMap /\ call'.op = "insertAtEnd" /\ call'.key = k)
         => ret'.err = "DuplicateKeyError"]_vars

\* C14: constructing the store from data that is not an array fails with
\* InvalidInputError.
C14_NonArrayFails ==
  (call.op = "new" /\ ~call.data[1].isArray) => ret.err = "InvalidInputError"

\* C14, amended: constructing the store from data that is not an array does
\* not fail; the store is empty, whatever elements the data has.
C14_NonArrayIsEmpty ==
  (call.op = "new" /\ ~call.data[1].isArray)
    => /\ ret.err = ""
       /\ items = <<>>
       /\ DOMAIN keyMap = {}

\* A store was constructed from an array-like object that has an element.
C14_Witness ==
  /\ call.op = "new" /\ ~call.data[1].isArray /\ call.data[1].elems # <<>>
  /\ items = <<>> /\ ret.err = ""

\* C15: for two different present keys k and a, with the positions of
\* their records as index arguments and no _moved marker on the record of
\* k, moveAfter leaves the record of k right after the record of a, count()
\* as it was and the other records in their order.
C15_MoveAfterPlaces ==
  [][\A k, a \in Keys :
       (/\ k \in DOMAIN keyMap /\ a \in DOMAIN keyMap
        /\ ~heap[keyMap[k]].moved
        /\ MoveAfter(k, a))
         => /\ Len(items') = Len(items)
            /\ LET p == _findIndex(items', keyMap[a])
               IN  p + 2 <= Len(items') /\ items'[p + 2] = keyMap[k]
            /\ Without(items', keyMap[k]) = Without(items, keyMap[k])]_vars

\* A record was moved backward, to right after the first record.
C15_Witness ==
  /\ call.op = "moveAfter" /\ ret.err = ""
  /\ Len(items) >= 3
  /\ items[2] = keyMap[call.key]
  /\ Bijection

\* The last position of the array raw whose item has key k.
LastWith(raw, k) ==
  CHOOSE i \in 1..Len(raw) :
    raw[i].key = k /\ \A j \in (i + 1)..Len(raw) : raw[j].key # k

\* The array and the map hold the items of the array raw and nothing else.
HoldsExactly(its, km, h, raw) ==
  /\ Len(its) = Len(raw)
  /\ \A i \in 1..Len(raw) : h[its[i]] = NewItem(raw[i].key, raw[i])
  /\ DOMAIN km = {raw[i].key : i \in 1..Len(raw)}
  /\ \A k \in DOMAIN km : km[k] = its[LastWith(raw, k)]
  /\ DOMAIN h = Range(its)

\* C16: setData(data) leaves the array and the map as the construction of a
\* store from data does, with no record of the old data, and calls the
\* notification handler's reload() once, when the store is rebuilt; the
\* construction calls reload() not at all.
C16_SetDataReloadsOnce ==
  /\ [](call.op = "new" => reloads = <<>>)
  /\ [][call'.op = "setData" =>
          LET data  == call'.data[1]
              fresh == keyedDataAdapter(data)
          IN  /\ HoldsExactly(items', keyMap', heap',
                              IF data.isArray THEN data.elems ELSE <<>>)
              /\ <<items', keyMap', heap'>> = <<fresh.items, fresh.keyMap, fresh.heap>>
              /\ reloads' = <<[items |-> items', keyMap |-> keyMap', heap |-> heap']>>]_vars

\* The data of a store that held records was replaced by other data.
C16_Witness ==
  /\ call.op = "setData" /\ call.data[1].isArray
  /\ Len(items) >= 2 /\ budget < MaxSteps - 1
  /\ Len(reloads) = 1 /\ reloads[1].items = items

\* C17: for a key d that is not present, insertAtEnd(d, payload) followed
\* by moveToStart(d) yields the record of d followed by the records that
\* were there, in their order; on every store the operations lead to, a
\* sorted store included.
C17_InsertThenMoveToStart ==
  \A d \in Keys \ DOMAIN keyMap : \A v \in Vals :
    LET payload == [key |-> d, v |-> v]
        st == moveToStart(insertAtEnd(Store, d, payload), d)
    IN  /\ ~st.threw
        /\ RecordSeq(st.items, st.heap)
             = <<[key |-> d, data |-> payload]>> \o RecordSeq(items, heap)

\* A record that was appended to two others was moved to the start.
C17_Witness ==
  /\ call.op = "moveToStart" /\ call.had /\ ret.err = ""
  /\ Len(items) = 3
  /\ items[1] = keyMap[call.key]
  /\ heap[items[1]].index = <<2>>

IsPrefix(s, t) == Len(s) <= Len(t) /\ SubSeq(t, 1, Len(s)) = s

\* The callbacks of a navigation from the page of one controller to the
\* page of another, in their order.
FourCallbacks(nav) ==
  <<[controller |-> nav.previous[1], method |-> "beforeNavigateOut"],
    [controller |-> nav.previous[1], method |-> "afterNavigateOut"],
    [controller |-> nav.controller[1], method |-> "beforeNavigateIn"],
    [controller |-> nav.controller[1], method |-> "afterNavigateIn"]>>

\* C18: in a navigation from an active page P to a page Q the callbacks
\* called are, in this order, P.beforeNavigateOut, P.afterNavigateOut,
\* Q.beforeNavigateIn, Q.afterNavigateIn, none called while the promise of
\* the one before is pending; the view of P is a child of the host element
\* when beforeNavigateOut is called and is none when afterNavigateOut is
\* called, and the view of Q is one when beforeNavigateIn is called.
C18_NavigationLifecycle ==
  \A n \in DOMAIN navigations :
    LET nav == navigations[n]
    IN  (nav.active /\ nav.controller # <<>>)
          => /\ IsPrefix([i \in DOMAIN nav.calls |->
                            [controller |-> nav.calls[i].controller,
                             method |-> nav.calls[i].method]],
                         FourCallbacks(nav))
             /\ nav.calls # <<>> =>
                   nav.pc \in {nav.calls[Len(nav.calls)].method, "done", "error"}
             /\ \A i \in DOMAIN nav.calls :
                   /\ nav.calls[i].method = "beforeNavigateOut" => nav.calls[i].inDocument
                   /\ nav.calls[i].method = "afterNavigateOut" => ~nav.calls[i].inDocument
                   /\ nav.calls[i].method = "beforeNavigateIn" => nav.calls[i].inDocument

\* C19: viewReady is called once on a page controller, never again by a
\* later navigation to its page, and there is at most one controller for a
\* page name, also when the page is navigated to again while its view is
\* being loaded.
C19_OneControllerPerPage ==
  /\ \A i \in DOMAIN controllerCache : controllerCache[i].viewReady <= 1
  /\ \A i, j \in DOMAIN controllerCache :
       controllerCache[i].page = controllerCache[j].page => i = j

\* C20: MT.App.init() has returned, after the DOM content was loaded, before
\* any navigation: there is no current location and no navigation of the
\* AppController before that, whenever the activated events arrive.
C20_InitBeforeNavigation ==
  /\ App = "initialized" => domContentLoaded
  /\ (history.current # "" \/ navigations # <<>>) => App = "initialized"

\* The launch activation has navigated to the home page, whose view is
\* being loaded.
C20_Witness ==
  /\ App = "initialized" /\ domContentLoaded
  /\ history.current = homePage
  /\ Len(navigations) = 1 /\ navigations[1].pc = "loadView"
  /\ navigations[1].location = homePage

\* The moves that report the change from the array old to the array new:
\* one for every record whose position differs, by increasing new position.
ExpectedMoves(old, new, h) ==
  LET displaced == SelectSeq([i \in 1..Len(new) |-> i],
                             LAMBDA i : _findIndex(old, new[i]) # i - 1)
  IN  [j \in 1..Len(displaced) |->
         LET i == displaced[j]
         IN  [op |-> IF i = 1 THEN "moveToStart" ELSE "moveAfter",
              key |-> h[new[i]].key,
              prevKey |-> IF i = 1 THEN "" ELSE h[new[i - 1]].key]]

\* C21: sort invokes one move primitive for exactly the records whose
\* position after the sort differs from their position before it, by
\* increasing new position: moveToStart if and only if the record is at
\* position 0, else moveAfter with the key of the record before it, a falsy
\* key included.
C21_SortReplay ==
  [][call'.op = "sort" => moves' = ExpectedMoves(items, items', heap')]_vars

\* C22: sort of a store with no record or with one record invokes neither
\* moveToStart nor moveAfter, also when the one record has no cached index.
C22_SortOfOneMovesNothing ==
  [][(call'.op = "sort" /\ Len(items) <= 1) => moves' = <<>>]_vars

\* The names of the primitives in a sequence of moves.
MoveOps(m) == [j \in DOMAIN m |-> m[j].op]

C24_BatchIsFlag ==
  [][/\ (call'.op = "endEdits" /\ begun >= 1) => ~editing'
     /\ (call'.op = "sort" /\ editing) =>
           /\ editing'
           /\ \A i \in DOMAIN steps' : steps'[i] \notin {"beginEdits", "endEdits"}]_vars

\* One endEdits has closed a batch in which beginEdits was called twice.
C24_Witness ==
  /\ call.op = "endEdits" /\ begun >= 2 /\ ~editing

\* The store in which sort has set the marker on the record of key k
\* (item._moved = true) and is about to invoke a move of k.
Marked(st, k) == [st EXCEPT !.heap[st.keyMap[k]].moved = TRUE]

\* The records of the store st are those of the state, in their order, and
\* the map is the state's; the record of k carries no marker.
Untouched(st, k) ==
  /\ ~st.threw
  /\ st.items = items
  /\ st.keyMap = keyMap
  /\ RecordSeq(st.items, st.heap) = RecordSeq(items, heap)
  /\ ~st.heap[st.keyMap[k]].moved

\* The keys present whose record is in the array.
Placed == {k \in DOMAIN keyMap : _findIndex(items, keyMap[k]) >= 0}

\* C25, the marker: a move primitive invoked on a record that carries the
\* marker clears the marker and leaves the array, its records and the map
\* as they are.
C25_MarkerSwallowsMove ==
  \A k \in Placed :
    /\ Untouched(moveToStart(Marked(Store, k), k), k)
    /\ Untouched(moveToEnd(Marked(Store, k), k), k)
    /\ \A a \in Placed \ {k} :
         Untouched(moveAfter(Marked(Store, k), k, a, _findIndex(items, keyMap[k]),
                             _findIndex(items, keyMap[a])), k)

\* C25: a move primitive invoked on a record that carries the marker clears
\* the marker and leaves the array, its records and the map as they are;
\* the next move of the record relocates it: moveToStart to position 0,
\* moveToEnd to the last position, the other records keeping their order.
C25_MarkerThenMove ==
  /\ C25_MarkerSwallowsMove
  /\ \A k \in Placed :
       LET st == moveToStart(Marked(Store, k), k)
           ks == KeySeq(items, heap)
       IN  /\ KeySeq(moveToStart(st, k).items, heap) = <<k>> \o Without(ks, k)
           /\ KeySeq(moveToEnd(st, k).items, heap) = Without(ks, k) \o <<k>>

\* C26: moveToStart, moveToEnd, moveAfter (called with the positions of the
\* two records) and sort leave count() and the multiset of the records in
\* the array as they are, and a moveToStart(k) right after a moveToStart(k)
\* leaves the array as the first one left it.
C26_MovesPermute ==
  [][/\ call'.op \in {"moveToStart", "moveToEnd", "moveAfter", "sort"}
          => /\ Len(items') = Len(items)
             /\ IsPermutation(RecordSeq(items', heap'), RecordSeq(items, heap))
     /\ (call.op = "moveToStart" /\ call.had
           /\ call'.op = "moveToStart" /\ call'.key = call.key)
          => items' = items]_vars

\* C27: between the calls on the data source no record carries the marker
\* that sort sets.
C27_NoMarkerAtRest ==
  \A id \in DOMAIN heap : ~heap[id].moved

\* The navigations that have not come to their end.
Pending == {n \in DOMAIN navigations : navigations[n].pc \notin {"done", "error"}}

\* C28: the host element has at most one view as its child, and when no
\* navigation is pending it has the view of the page navigated to last.
C28_OneViewInHost ==
  /\ Len(hostEl) <= 1
  /\ (navigations # <<>> /\ Pending = {})
       => /\ history.current \in DOMAIN _pageMap
          /\ hostEl = <<_pageMap[history.current]>>

====
